---- MODULE Spec2Model ----
(***************************************************************************)
(* opencode-browser: the browser session (BrowserSessionManager), the      *)
(* external renderer supervisor (AwritManager), the page event collector   *)
(* and the terminal graphics detection of plugin start-up, as state        *)
(* machines.                                                               *)
(*                                                                         *)
(* JavaScript runs each callback to completion: one action below is one    *)
(* run of synchronous code between two suspension points (await, timer,    *)
(* process event), together with every microtask it schedules.             *)
(***************************************************************************)
EXTENDS Integers, Sequences, FiniteSets, TLC

\* ---------------------------------------------------------------- bounds
\* Renderer subprocesses spawned over the life of the session.
MaxSpawn == 2
\* Command lines written to renderer stdin before new operations stop.
MaxWrites == 1
\* Page events (console, request, response) delivered over the life of the page.
MaxEvents == 3
\* Chunks of terminal input delivered to the query probe's data listener.
MaxChunks == 2
\* Calls of TerminalDisplay.initialize over the life of the display.
MaxInit == 2
\* How far the clock advances in one step while the probe's timer is pending.
TickMs == 50

URLS == {"u1", "u2"}
\* The callers of the session that may be suspended at the same time: one
\* browser_navigate call, one scroll tool call (browser-tools.ts), and the
\* plugin's event hook closing the session on 'session.deleted' (index.ts).
Lanes == {"navigate", "scroll", "hook"}
Procs == 1..MaxSpawn

\* What spawn() can hand back: a running child with a stdin pipe; a child
\* object without a stdin stream; a child whose launch failed (it emits
\* 'error' on the next tick and never emits 'exit').
SpawnOutcomes == {"ok", "nostdin", "enoent"}

VARIABLES
    \* BrowserSessionManager fields (TRUE = non-null)
    browser, context, page, awritManager,
    useAwrit,       \* config.useAwrit ?? isTerminalEnvironment()
    initialized,    \* initialize() has been called by the plugin
    pageUrl,        \* where the page was last driven by goto
    \* AwritManager fields
    process,        \* 0 = null, else the id of the tracked ChildProcess
    ready,
    \* the environment: child processes and their stdin
    procs, nspawn,
    written,        \* lines written to a child's stdin, in order
    exitCode,       \* the code of the last 'exit' event, as the handler logs it
    \* session operations suspended at an await, and the last one returned
    calls, returned,
    \* the event collector of BrowserSessionManager
    consoleLogs, networkRequests,
    \* the page: events delivered so far, requests awaiting their response
    nevents, inflight,
    arrived,        \* the console messages the page delivered since the last clear
    \* clear/delivery history, and the last retrieval: what it returned and when
    sinceClear, got,
    \* the terminal the host process is attached to, and its environment
    stdoutTTY, stdinTTY,    \* process.stdout.isTTY, process.stdin.isTTY
    env,                    \* process.env, the four variables detection reads
    stdinMode,              \* process.stdin: raw mode, flowing, data listener
    io,                     \* the calls detection made on stdin and stdout, in order
    \* supportsKittyGraphics: the pending promise's closure
    kittyProbe,
    \* detectGraphicsProtocol: where it is, how the query probe resolved
    detect, caps,
    \* BrowserPlugin start-up and the TerminalDisplay it creates
    plugin,
    \* the last displayImage call: what it wrote to stdout and to stderr
    rendered,
    \* the session directory: session-state.json as initialize finds it
    stateFile,
    \* BrowserSessionManager.initialize step by step: where it is and the
    \* storageState it handed to newContext
    store,
    \* console.log and network.log of the LogManager
    logFile,
    \* a log tool call suspended at its file write, and what the last one reported
    retrieval

sessionVars == <<browser, context, page, awritManager, useAwrit, initialized, pageUrl>>
awritVars == <<process, ready>>
envVars == <<procs, nspawn, written, exitCode>>
callVars == <<calls, returned>>
logVars == <<consoleLogs, networkRequests, nevents, inflight, arrived,
             sinceClear, got, retrieval>>
fileVars == <<stateFile, store, logFile>>
probeVars == <<stdoutTTY, stdinTTY, env, stdinMode, io, kittyProbe, detect, caps, plugin,
               rendered, fileVars>>
vars == <<sessionVars, awritVars, envVars, callVars, logVars, probeVars>>

\* ---------------------------------------------------------------- records
\* arg is the initial URL a live child was launched with.
NoProc == [st |-> "unspawned", stdin |-> FALSE, killed |-> FALSE,
           errSeen |-> FALSE, at |-> "none", arg |-> "none"]

\* A text is a sequence of pieces: a piece is a run of characters without a
\* line break, or the line break itself.
NL == "\n"

NoCmd == [command |-> <<>>, args |-> <<>>]

Idle == [op |-> "idle", pc |-> "idle", url |-> "none", p |-> 0,
         steps |-> {}, mirror |-> "none", cmd |-> NoCmd]

Ret(op, outcome, steps, mirror) ==
    [op |-> op, outcome |-> outcome, steps |-> steps, mirror |-> mirror]

NoReturn == Ret("none", "none", {}, "none")

\* A new tool call may be issued on lane c: the previous one has returned and
\* the write budget is not spent.
CanIssue(c) == calls[c].op = "idle" /\ Len(written) < MaxWrites

\* process.env as a record; a variable that is not set reads as empty.
NoEnv == [TERM_PROGRAM |-> "", LC_TERMINAL |-> "", TERM |-> <<>>, XTERM_VERSION |-> ""]

KittyProbeIdle == [response |-> <<>>, nchunks |-> 0, timer |-> FALSE, elapsed |-> 0]

\* rawBefore remembers the input mode detection found.
DetectIdle(raw) == [pc |-> "idle", rawBefore |-> raw, answer |-> "none", by |-> "none"]

NoCaps == [protocol |-> "undetected", supported |-> FALSE, reason |-> <<>>]

PluginNew == [pc |-> "new", error |-> "none", protocol |-> "none", shot |-> "none",
              inits |-> 0]

\* initialize() has not been called; dir is existsSync(this.sessionDir).
StoreNew == [pc |-> "new", dir |-> TRUE, storageState |-> "undefined", error |-> "none",
             save |-> "idle"]

\* The log files before LogManager.initialize and any retrieval.
NoLogFiles == [console |-> <<>>, network |-> <<>>]

\* No log tool call in flight and none returned.
NoRetrieval == [pc |-> "idle", kind |-> "none", lines |-> <<>>, live |-> FALSE,
                length |-> 0, total |-> 0]

\* No displayImage call yet.
NoFrame == [outcome |-> "none", protocol |-> "none", bytes |-> 0,
            options |-> [width |-> <<>>, height |-> <<>>],
            out |-> <<>>, err |-> <<>>]

\* Fields of the session, the supervisor and the collector after construction.
InitSession ==
    /\ browser = FALSE /\ context = FALSE /\ page = FALSE /\ awritManager = FALSE
    /\ useAwrit \in BOOLEAN
    /\ initialized = FALSE
    /\ pageUrl = "none"
    /\ process = 0 /\ ready = FALSE
    /\ procs = [p \in Procs |-> NoProc]
    /\ nspawn = 0
    /\ written = <<>>
    /\ exitCode = "none"
    /\ calls = [c \in Lanes |-> Idle]
    /\ returned = NoReturn
    /\ consoleLogs = <<>> /\ networkRequests = <<>>
    /\ nevents = 0
    /\ arrived = <<>>
    /\ inflight = [u \in URLS |-> 0]
    /\ sinceClear = "never"
    /\ got = [kind |-> "none", after |-> "none", result |-> <<>>]

\* The detection state before BrowserPlugin runs.
InitDetection ==
    /\ io = <<>>
    /\ kittyProbe = KittyProbeIdle
    /\ detect = DetectIdle(stdinMode.isRaw)
    /\ caps = NoCaps
    /\ plugin = PluginNew
    /\ rendered = NoFrame
    /\ logFile = NoLogFiles
    /\ retrieval = NoRetrieval

\* The session on its own: no terminal attached, nothing in the environment.
Init ==
    /\ InitSession
    /\ stdoutTTY = FALSE /\ stdinTTY = FALSE
    /\ env = NoEnv
    /\ stdinMode = [isRaw |-> FALSE, flowing |-> FALSE, listening |-> FALSE]
    /\ InitDetection
    /\ stateFile = "missing" /\ store = StoreNew

\* ---------------------------------------------------------------- AwritManager

\* A cleanup that clears the flag and forgets to release the handle.
cleanup_KeepsProcess == process' = process /\ ready' = FALSE

\* AwritManager.cleanup
cleanup == process' = 0 /\ ready' = FALSE

\* The state the supervisor is in, read off its two fields.
SupState ==
    IF process # 0 /\ ready THEN "Ready"
    ELSE IF process # 0 THEN "Starting"
    ELSE "NoProcess"

\* A guard that checks the stdin pipe and forgets the ready flag.
CanSend_IgnoresReady == process # 0 /\ procs[process].stdin

\* AwritManager.sendCommand: the guard (negated early return).
CanSend == process # 0 /\ procs[process].stdin /\ ready

\* Array.prototype.join(' ') over texts.
RECURSIVE Join(_)
Join(parts) ==
    IF parts = <<>> THEN <<>>
    ELSE IF Len(parts) = 1 THEN parts[1]
    ELSE parts[1] \o <<" ">> \o Join(Tail(parts))

\* A join that drops the arguments.
CommandLine_CommandOnly(command, args) == command

\* const commandLine = [command, ...args].join(' ')
CommandLine(command, args) == Join(<<command>> \o args)

\* A sendCommand without the precondition test.
sendCommand_Unguarded(command, args) ==
    written' = Append(written, [proc |-> process,
                                line |-> CommandLine(command, args) \o <<NL>>])

\* AwritManager.sendCommand: the write of `${commandLine}\n`, or the logged
\* no-op.
sendCommand(command, args) ==
    written' = IF CanSend
               THEN Append(written, [proc |-> process,
                                     line |-> CommandLine(command, args) \o <<NL>>])
               ELSE written

\* AwritManager.navigate
navigate(url) == sendCommand(<<"navigate">>, << <<url>> >>)

\* What the caller's record notes of that sendCommand: a line written, or
\* 'awrit not ready or stdin not available' logged.
MirrorOf == IF CanSend THEN "written" ELSE "reported"

\* AwritManager.start up to its await: spawn, the stdin check, the handlers.
start(c, u, o) ==
    LET p == nspawn + 1 IN
    /\ nspawn' = p
    /\ process' = p
    /\ procs' = [procs EXCEPT ![p] =
                    [NoProc EXCEPT !.st = IF o = "ok" THEN "running" ELSE "failed",
                                   !.stdin = (o # "nostdin"),
                                   !.arg = IF o = "ok" THEN u ELSE "none"]]
    /\ IF o = "nostdin"
       THEN /\ returned' = Ret("navigate", "RendererError", {}, "none")
            /\ calls' = calls
       ELSE /\ calls' = [calls EXCEPT ![c] =
                            [Idle EXCEPT !.op = "navigate", !.pc = "settle",
                                         !.url = u, !.p = p]]
            /\ returned' = returned
    /\ UNCHANGED <<ready, written, exitCode>>

\* ---------------------------------------------------------------- session

\* BrowserSessionManager.initialize: the fields it assigns.
initialize ==
    /\ initialized' = TRUE
    /\ awritManager' = useAwrit
    /\ browser' = TRUE /\ context' = TRUE /\ page' = TRUE

\* BrowserPlugin: session.initialize(), called once at plugin start.
Initialize ==
    /\ ~initialized
    /\ initialize
    /\ UNCHANGED <<useAwrit, pageUrl, awritVars, envVars, callVars>>
    /\ UNCHANGED logVars
    /\ UNCHANGED probeVars

\* BrowserSessionManager.navigate up to its first await, for a call on lane c.
NavigateOn(c, u) ==
    /\ CanIssue(c)
    /\ \/ /\ ~page
          /\ returned' = Ret("navigate", "NotInitialized", {}, "none")
          /\ UNCHANGED <<calls, awritVars, envVars>>
       \/ /\ page /\ awritManager /\ ~ready
          /\ nspawn < MaxSpawn
          /\ \E o \in SpawnOutcomes : start(c, u, o)
       \/ /\ page /\ awritManager /\ ready
          /\ navigate(u)
          /\ calls' = [calls EXCEPT ![c] =
                          [Idle EXCEPT !.op = "navigate", !.pc = "goto",
                                       !.url = u, !.mirror = MirrorOf]]
          /\ UNCHANGED <<returned, awritVars, procs, nspawn, exitCode>>
       \/ /\ page /\ ~awritManager
          /\ calls' = [calls EXCEPT ![c] =
                          [Idle EXCEPT !.op = "navigate", !.pc = "goto", !.url = u]]
          /\ UNCHANGED <<returned, awritVars, envVars>>
    /\ UNCHANGED sessionVars
    /\ UNCHANGED logVars
    /\ UNCHANGED probeVars

\* browser_navigate
Navigate(u) == NavigateOn("navigate", u)

\* A second browser_navigate call, issued while the first may be suspended;
\* it occupies the other tool lane.
NavigateConcurrent(u) == NavigateOn("scroll", u)

\* The settle timer of waitForReady fires: start() sets ready and returns,
\* and navigate goes on to page.goto. A failed launch has emitted its 'error'
\* by then (it is emitted on the tick after spawn, before any timer).
SettleDone(c) ==
    /\ calls[c].pc = "settle"
    /\ procs[calls[c].p].st = "failed" => procs[calls[c].p].errSeen
    /\ ready' = TRUE
    /\ IF page
       THEN /\ calls' = [calls EXCEPT ![c].pc = "goto"]
            /\ returned' = returned
       ELSE /\ calls' = [calls EXCEPT ![c] = Idle]
            /\ returned' = Ret("navigate", "TypeError", {}, "none")
    /\ UNCHANGED <<sessionVars, process, envVars>>
    /\ UNCHANGED logVars
    /\ UNCHANGED probeVars

\* page.goto settles: the page is at url, or the page driver's error propagates.
GotoDone(c) ==
    /\ calls[c].pc = "goto"
    /\ \E ok \in BOOLEAN :
        /\ ok => page
        /\ pageUrl' = IF ok THEN calls[c].url ELSE pageUrl
        /\ returned' = Ret("navigate",
                           IF ok THEN "ok" ELSE "PageError", {}, calls[c].mirror)
    /\ calls' = [calls EXCEPT ![c] = Idle]
    /\ UNCHANGED <<browser, context, page, awritManager, useAwrit, initialized,
                   awritVars, envVars>>
    /\ UNCHANGED logVars
    /\ UNCHANGED probeVars

\* browser_page_down: session.scroll(0, 800)
PAGE_DOWN == [command |-> <<"scroll">>, args |-> << <<"0">>, <<"800">> >>]

\* The scroll operations the tools issue, each with the command it mirrors:
\* scroll(0, 800), scrollTo(0, 0), and scrollToElement with a selector on one
\* line and with a selector whose descendant combinator is a line break.
SCROLLS ==
    {PAGE_DOWN,
     [command |-> <<"scrollTo">>, args |-> << <<"0">>, <<"0">> >>],
     [command |-> <<"scrollToElement">>, args |-> << <<"#main">> >>],
     [command |-> <<"scrollToElement">>, args |-> << <<"div", NL, ".x">> >>]}

\* BrowserSessionManager.getCurrentUrl: `this.page?.url() || null`; a new
\* page is at about:blank.
getCurrentUrl ==
    IF page THEN (IF pageUrl = "none" THEN "about:blank" ELSE pageUrl) ELSE "null"

\* BrowserSessionManager.scroll / scrollTo / scrollToElement up to the await.
Scroll(s) ==
    /\ CanIssue("scroll")
    /\ LET c == "scroll" IN
       \/ /\ ~page
          /\ returned' = Ret("scroll", "NotInitialized", {}, "none")
          /\ calls' = calls
       \/ /\ page
          /\ calls' = [calls EXCEPT ![c] =
                          [Idle EXCEPT !.op = "scroll", !.pc = "pageaction",
                                       !.cmd = s]]
          /\ returned' = returned
    /\ UNCHANGED <<sessionVars, awritVars, envVars>>
    /\ UNCHANGED logVars
    /\ UNCHANGED probeVars

\* The operations that only await one page action: click, type, screenshot,
\* evaluate, getStorageState, setStorageItem.
PAGE_OPS == {"click", "type", "screenshot", "evaluate", "getStorageState",
             "setStorageItem"}

\* `if (!this.page) throw new Error('Session not initialized')` (negated)
pageGuard == page

\* BrowserSessionManager.click / type / screenshot / evaluate /
\* getStorageState / setStorageItem up to the await. The tool call occupies
\* the lane of the scroll tools.
PageOp(o) ==
    /\ calls["scroll"].op = "idle"
    /\ LET c == "scroll" IN
       IF ~pageGuard
       THEN /\ returned' = Ret(o, "NotInitialized", {}, "none")
            /\ calls' = calls
       ELSE /\ calls' = [calls EXCEPT ![c] =
                            [Idle EXCEPT !.op = o, !.pc = "pageaction"]]
            /\ returned' = returned
    /\ UNCHANGED <<sessionVars, awritVars, envVars>>
    /\ UNCHANGED logVars
    /\ UNCHANGED probeVars

\* The page action of a scroll, or of one of the operations above, settles;
\* on success a scroll is mirrored.
ScrollPageDone(c) ==
    /\ calls[c].pc = "pageaction"
    /\ \E ok \in BOOLEAN :
        /\ ok => page
        /\ IF ok /\ awritManager /\ calls[c].op = "scroll"
           THEN /\ sendCommand(calls[c].cmd.command, calls[c].cmd.args)
                /\ returned' = Ret("scroll", "ok", {}, MirrorOf)
           ELSE /\ written' = written
                /\ returned' = Ret(calls[c].op,
                                   IF ok THEN "ok" ELSE "PageError", {}, "none")
    /\ calls' = [calls EXCEPT ![c] = Idle]
    /\ UNCHANGED <<sessionVars, awritVars, procs, nspawn, exitCode>>
    /\ UNCHANGED logVars
    /\ UNCHANGED probeVars


\* AwritManager.stop as called from close(), then `await this.browser?.close()`.
\* With a tracked process: kill it and wait for its 'exit'. With none (or no
\* supervisor): go straight on to the browser.
BrowserStage(c, st) ==
    IF browser
    THEN /\ calls' = [calls EXCEPT ![c] =
                         [Idle EXCEPT !.op = "close", !.pc = "browserclose",
                                      !.steps = st \cup {"browser"}]]
         /\ UNCHANGED <<returned, browser, context, page, awritManager>>
    ELSE /\ calls' = [calls EXCEPT ![c] = Idle]
         /\ returned' = Ret("close", "ok", st \cup {"browser"}, "none")
         /\ browser' = FALSE /\ context' = FALSE /\ page' = FALSE
         /\ awritManager' = FALSE

\* A stop that signals the child and does not wait for its exit.
stop_NoWait(c, st) ==
    /\ procs' = IF awritManager /\ process # 0
                THEN [procs EXCEPT ![process].killed = (procs[process].st = "running")]
                ELSE procs
    /\ BrowserStage(c, st \cup {"stop"})

stop(c, st) ==
    IF awritManager /\ process # 0
    THEN /\ procs' = [procs EXCEPT ![process].killed = (procs[process].st = "running")]
         /\ calls' = [calls EXCEPT ![c] =
                         [Idle EXCEPT !.op = "close", !.pc = "stopwait",
                                      !.p = process, !.steps = st \cup {"stop"}]]
         /\ UNCHANGED <<returned, browser, context, page, awritManager>>
    ELSE /\ procs' = procs
         /\ BrowserStage(c, st \cup {"stop"})

\* BrowserSessionManager.close up to its first suspension: saveSession returns
\* at once without a context, and otherwise awaits the state and the write.
Close ==
    /\ calls["hook"].op = "idle"
    /\ LET c == "hook" IN
       IF context
       THEN /\ calls' = [calls EXCEPT ![c] =
                            [Idle EXCEPT !.op = "close", !.pc = "save",
                                         !.steps = {"save"}]]
            /\ UNCHANGED <<returned, browser, context, page, awritManager, procs>>
       ELSE stop(c, {"save"})
    /\ UNCHANGED <<useAwrit, initialized, pageUrl, awritVars, nspawn, written, exitCode>>
    /\ UNCHANGED logVars
    /\ UNCHANGED probeVars

\* saveSession settles: close goes on to stop the renderer, or the write's
\* error propagates out of close.
CloseSaveDone(c) ==
    /\ calls[c].pc = "save"
    /\ \/ stop(c, calls[c].steps)
       \/ /\ calls' = [calls EXCEPT ![c] = Idle]
          /\ returned' = Ret("close", "SaveError", calls[c].steps, "none")
          /\ UNCHANGED <<browser, context, page, awritManager, procs>>
    /\ UNCHANGED <<useAwrit, initialized, pageUrl, awritVars, nspawn, written, exitCode>>
    /\ UNCHANGED logVars
    /\ UNCHANGED probeVars

\* browser.close() settles: the handles are dropped, or its error propagates.
CloseBrowserDone(c) ==
    /\ calls[c].pc = "browserclose"
    /\ \/ /\ returned' = Ret("close", "ok", calls[c].steps, "none")
          /\ browser' = FALSE /\ context' = FALSE /\ page' = FALSE
          /\ awritManager' = FALSE
       \/ /\ returned' = Ret("close", "BrowserCloseError", calls[c].steps, "none")
          /\ UNCHANGED <<browser, context, page, awritManager>>
    /\ calls' = [calls EXCEPT ![c] = Idle]
    /\ UNCHANGED <<useAwrit, initialized, pageUrl, awritVars, envVars>>
    /\ UNCHANGED logVars
    /\ UNCHANGED probeVars

\* ---------------------------------------------------------------- child process events

\* The 'exit' event of child p: start's handler runs cleanup, and every stop()
\* waiting on p resumes (cleanup again) and its close goes on to the browser.
StopWaiters(p) == {c \in Lanes : calls[c].pc = "stopwait" /\ calls[c].p = p}

ExitEvent(p) ==
    /\ procs[p].st = "running"
    /\ procs' = [procs EXCEPT ![p].st = "exited", ![p].arg = "none",
                              ![p].at = IF process = p THEN SupState ELSE "Other"]
    /\ exitCode' \in (IF procs[p].killed THEN {"null"} ELSE {"0", "1"})
    /\ cleanup
    /\ calls' = [c \in Lanes |->
                    IF c \in StopWaiters(p)
                    THEN IF browser
                         THEN [calls[c] EXCEPT !.pc = "browserclose",
                                               !.steps = @ \cup {"browser"}]
                         ELSE Idle
                    ELSE calls[c]]
    /\ IF StopWaiters(p) # {} /\ ~browser
       THEN /\ returned' = Ret("close", "ok", {"save", "stop", "browser"}, "none")
            /\ browser' = FALSE /\ context' = FALSE /\ page' = FALSE
            /\ awritManager' = FALSE
       ELSE UNCHANGED <<returned, browser, context, page, awritManager>>
    /\ UNCHANGED <<useAwrit, initialized, pageUrl, nspawn, written>>
    /\ UNCHANGED logVars
    /\ UNCHANGED probeVars

\* The 'error' event of a child whose launch failed: start's handler logs it.
ErrorEvent(p) ==
    /\ procs[p].st = "failed" /\ procs[p].stdin /\ ~procs[p].errSeen
    /\ procs' = [procs EXCEPT ![p].errSeen = TRUE]
    /\ UNCHANGED <<sessionVars, awritVars, nspawn, written, exitCode, callVars>>
    /\ UNCHANGED logVars
    /\ UNCHANGED probeVars

\* ---------------------------------------------------------------- event collector
\* msg.type() as the page driver delivers it: severities of ConsoleMessage,
\* and one driver type outside them.
TYPES == {"log", "error", "warning"}
\* The filter argument of the console tool, "none" for undefined.
ConsoleFilters == {"none", "log", "error", "warn"}
\* The urlFilter argument of the network tool, "none" for undefined.
UrlFilters == {"none", "u", "1"}
\* response.status(): an HTTP status code, or 0 (what the page driver
\* reports for a response that has none, such as a file:// URL).
STATUSES == {0, 200}

\* The status field of a NetworkRequest: <<>> while it is undefined, <<s>>
\* once a response assigned s.
Unset == <<>>

\* JavaScript's `!r.status`: undefined and 0 are both falsy.
Falsy(st) == st = Unset \/ st = <<0>>

\* String.prototype.includes, on the URLs and filters of the model.
Includes(url, f) == f = "u" \/ (f = "1" /\ url = "u1")

\* The 'console' listener: push.
onConsole(msg) == consoleLogs' = Append(consoleLogs, msg)

\* The 'request' listener: push an entry with no status.
onRequest(req) == networkRequests' = Append(networkRequests, req)

\* Array.prototype.find of the 'response' listener: the index of the first
\* entry with that url and a falsy status, 0 when there is none.
FindUnresolved(u) ==
    LET hits == {i \in 1..Len(networkRequests) :
                    networkRequests[i].url = u /\ Falsy(networkRequests[i].status)}
    IN IF hits = {} THEN 0 ELSE CHOOSE i \in hits : \A j \in hits : i <= j

\* The 'response' listener.
onResponse(u, status) ==
    networkRequests' = IF FindUnresolved(u) = 0 THEN networkRequests
                       ELSE [networkRequests EXCEPT ![FindUnresolved(u)].status = <<status>>]

\* A retrieval that ignores its filter.
getConsoleLogs_IgnoresFilter(filter) == consoleLogs

\* BrowserSessionManager.getConsoleLogs
getConsoleLogs(filter) ==
    IF filter # "none"
    THEN SelectSeq(consoleLogs, LAMBDA log : log.type = filter)
    ELSE consoleLogs

\* BrowserSessionManager.getNetworkRequests
getNetworkRequests(urlFilter) ==
    IF urlFilter # "none"
    THEN SelectSeq(networkRequests, LAMBDA req : Includes(req.url, urlFilter))
    ELSE networkRequests

\* A clear that empties the console buffer only.
clearLogs_ConsoleOnly == consoleLogs' = <<>> /\ networkRequests' = networkRequests

\* BrowserSessionManager.clearLogs
clearLogs == consoleLogs' = <<>> /\ networkRequests' = <<>>

Dirty == IF sinceClear = "never" THEN "never" ELSE "dirty"

\* Array.push on the array a log tool call holds: an unfiltered retrieval
\* returned the session's own array, so the tool's `logs` grows with it.
pushed(kind) ==
    retrieval' = IF retrieval.live /\ retrieval.kind = kind
                 THEN [retrieval EXCEPT !.length = @ + 1]
                 ELSE retrieval

\* msg.text(): one line, or text with a line break inside.
MESSAGE == <<"m">>

TEXTS == {MESSAGE, <<"a", NL, "b">>}

\* The page delivers a console message of type t and text x; n is its
\* arrival number.
ConsoleEventText(t, x) ==
    /\ page /\ nevents < MaxEvents
    /\ onConsole([type |-> t, text |-> x, n |-> nevents + 1])
    /\ pushed("console")
    /\ arrived' = Append(arrived, [type |-> t, text |-> x, n |-> nevents + 1])
    /\ nevents' = nevents + 1
    /\ sinceClear' = Dirty
    /\ UNCHANGED <<networkRequests, inflight, got>>
    /\ UNCHANGED <<sessionVars, awritVars, envVars, callVars>>
    /\ UNCHANGED probeVars

\* A console message of one line.
ConsoleEvent(t) == ConsoleEventText(t, MESSAGE)

\* The page starts a request.
RequestEvent(u) ==
    /\ page /\ nevents < MaxEvents
    /\ onRequest([url |-> u, method |-> "GET", status |-> Unset, n |-> nevents + 1])
    /\ nevents' = nevents + 1
    /\ inflight' = [inflight EXCEPT ![u] = @ + 1]
    /\ pushed("network")
    /\ sinceClear' = Dirty
    /\ UNCHANGED <<consoleLogs, arrived, got>>
    /\ UNCHANGED <<sessionVars, awritVars, envVars, callVars>>
    /\ UNCHANGED probeVars

\* The response to a request in flight arrives.
ResponseEvent(u, status) ==
    /\ page /\ inflight[u] > 0
    /\ onResponse(u, status)
    /\ inflight' = [inflight EXCEPT ![u] = @ - 1]
    /\ sinceClear' = Dirty
    /\ UNCHANGED <<consoleLogs, nevents, arrived, got, retrieval>>
    /\ UNCHANGED <<sessionVars, awritVars, envVars, callVars>>
    /\ UNCHANGED probeVars

\* browser_clear_logs
ClearLogs ==
    /\ clearLogs
    /\ retrieval' = [retrieval EXCEPT !.live = FALSE]
    /\ arrived' = <<>>
    /\ sinceClear' = "clean"
    /\ UNCHANGED <<nevents, inflight, got>>
    /\ UNCHANGED <<sessionVars, awritVars, envVars, callVars>>
    /\ UNCHANGED probeVars

\* browser_console_logs: the synchronous read of the buffer.
GetConsoleLogs(filter) ==
    /\ got' = [kind |-> "console", after |-> sinceClear, result |-> getConsoleLogs(filter)]
    /\ UNCHANGED <<consoleLogs, networkRequests, nevents, inflight, arrived, sinceClear,
                   retrieval>>
    /\ UNCHANGED <<sessionVars, awritVars, envVars, callVars>>
    /\ UNCHANGED probeVars

\* browser_network_requests: the synchronous read of the buffer.
GetNetworkRequests(urlFilter) ==
    /\ got' = [kind |-> "network", after |-> sinceClear, result |-> getNetworkRequests(urlFilter)]
    /\ UNCHANGED <<consoleLogs, networkRequests, nevents, inflight, arrived, sinceClear,
                   retrieval>>
    /\ UNCHANGED <<sessionVars, awritVars, envVars, callVars>>
    /\ UNCHANGED probeVars

\* String.prototype.toUpperCase on a message type.
toUpperCase(t) ==
    CASE t = "log" -> "LOG" [] t = "error" -> "ERROR" [] t = "warning" -> "WARNING"

\* The line writeConsoleLogs makes of a message; "ts" is its ISO timestamp.
consoleLine(log) == <<"[", "ts", "] [", toUpperCase(log.type), "] ">> \o log.text

\* The line writeNetworkLogs makes of a request.
networkLine(req) ==
    <<"[", "ts", "] ", req.method>>
       \o (IF Falsy(req.status) THEN <<>> ELSE <<" [", ToString(req.status[1]), "]">>)
       \o <<" ", req.url>>

\* lines.join('\n')
RECURSIVE JoinLines(_)
JoinLines(lines) ==
    IF lines = <<>> THEN <<>>
    ELSE IF Len(lines) = 1 THEN lines[1]
    ELSE lines[1] \o <<NL>> \o JoinLines(Tail(lines))

\* The text writeConsoleLogs and writeNetworkLogs hand to writeFile.
fileText(lines) == JoinLines(lines) \o <<NL>>

\* browser_console_logs up to the await of writeFile: the retrieval and the
\* lines are taken now, the array stays in the tool's hands.
ConsoleLogsTool(filter) ==
    /\ retrieval.pc # "writing"
    /\ LET logs == getConsoleLogs(filter) IN
       retrieval' = [pc |-> "writing", kind |-> "console",
                     lines |-> [i \in 1..Len(logs) |-> consoleLine(logs[i])],
                     live |-> (filter = "none"),
                     length |-> Len(logs), total |-> 0]
    /\ UNCHANGED <<consoleLogs, networkRequests, nevents, inflight, arrived, sinceClear,
                   got>>
    /\ UNCHANGED <<sessionVars, awritVars, envVars, callVars>>
    /\ UNCHANGED probeVars

\* browser_network_requests up to the await of writeFile.
NetworkRequestsTool(urlFilter) ==
    /\ retrieval.pc # "writing"
    /\ LET requests == getNetworkRequests(urlFilter) IN
       retrieval' = [pc |-> "writing", kind |-> "network",
                     lines |-> [i \in 1..Len(requests) |-> networkLine(requests[i])],
                     live |-> (urlFilter = "none"),
                     length |-> Len(requests), total |-> 0]
    /\ UNCHANGED <<consoleLogs, networkRequests, nevents, inflight, arrived, sinceClear,
                   got>>
    /\ UNCHANGED <<sessionVars, awritVars, envVars, callVars>>
    /\ UNCHANGED probeVars

\* writeFile settles and the tool returns, reporting the length of its array.
LogWriteDone ==
    /\ retrieval.pc = "writing"
    /\ logFile' = [logFile EXCEPT ![retrieval.kind] = fileText(retrieval.lines)]
    /\ retrieval' = [retrieval EXCEPT !.pc = "returned", !.live = FALSE,
                                      !.total = retrieval.length]
    /\ UNCHANGED <<consoleLogs, networkRequests, nevents, inflight, arrived, sinceClear,
                   got>>
    /\ UNCHANGED <<sessionVars, awritVars, envVars, callVars>>
    /\ UNCHANGED <<stdoutTTY, stdinTTY, env, stdinMode, io, kittyProbe, detect, caps,
                   plugin, rendered, stateFile, store>>

\* The log tools, with the page's events and clearLogs between their steps.
NextTool ==
    \/ Initialize
    \/ \E t \in TYPES, x \in TEXTS : ConsoleEventText(t, x)
    \/ \E u \in URLS : RequestEvent(u)
    \/ \E u \in URLS, status \in STATUSES : ResponseEvent(u, status)
    \/ ClearLogs
    \/ \E f \in ConsoleFilters : ConsoleLogsTool(f)
    \/ \E uf \in UrlFilters : NetworkRequestsTool(uf)
    \/ LogWriteDone

SpecTool == Init /\ [][NextTool]_vars

NextLogs ==
    \/ Initialize
    \/ \E t \in TYPES : ConsoleEvent(t)
    \/ \E u \in URLS : RequestEvent(u)
    \/ \E u \in URLS, status \in STATUSES : ResponseEvent(u, status)
    \/ ClearLogs
    \/ \E f \in ConsoleFilters : GetConsoleLogs(f)
    \/ \E uf \in UrlFilters : GetNetworkRequests(uf)

SpecLogs == Init /\ [][NextLogs]_vars

\* ---------------------------------------------------------------- terminal graphics detection

\* setTimeout(..., 100) of supportsKittyGraphics.
TimeoutMs == 100

\* Strings that the code searches are sequences of characters.
ESC == "ESC"
\* '\x1b_Gi=', the start of a terminal's answer to the graphics query.
MARKER == <<ESC, "_", "G", "i", "=">>
XTERM == <<"x", "t", "e", "r", "m">>
MLTERM == <<"m", "l", "t", "e", "r", "m">>
YAFT == <<"y", "a", "f", "t">>
XTERM_256COLOR == XTERM \o <<"-", "2", "5", "6", "c", "o", "l", "o", "r">>
YAFT_256COLOR == YAFT \o <<"-", "2", "5", "6", "c", "o", "l", "o", "r">>
VT100 == <<"v", "t", "1", "0", "0">>

\* The environments of the model.
TERM_PROGRAMS == {"", "iTerm.app", "Apple_Terminal"}
LC_TERMINALS == {"", "iTerm2"}
TERMS == {<<>>, XTERM_256COLOR, MLTERM, YAFT_256COLOR, VT100}
XTERM_VERSIONS == {"", "XTerm(390)"}

\* What the data listener may be handed in one chunk: the answer to the
\* graphics query whole or split in two, or the answer to the device
\* attributes query that follows it.
CHUNKS == {MARKER, <<ESC, "_", "G">>, <<"i", "=">>, <<ESC, "[", "?">>}

\* String.prototype.includes
StrIncludes(s, sub) ==
    \E i \in 1..(Len(s) - Len(sub) + 1) : SubSeq(s, i, i + Len(sub) - 1) = sub

\* supportsITerm2Graphics
supportsITerm2Graphics ==
    env.TERM_PROGRAM = "iTerm.app" \/ env.LC_TERMINAL = "iTerm2"

\* A check that accepts the terminal type xterm and nothing that contains it.
supportsSixelGraphics_ExactMatch ==
    \/ env.TERM = XTERM \/ env.TERM = MLTERM \/ env.TERM = YAFT
    \/ env.XTERM_VERSION # ""

\* supportsSixelGraphics
supportsSixelGraphics ==
    \/ StrIncludes(env.TERM, XTERM)
    \/ StrIncludes(env.TERM, MLTERM)
    \/ StrIncludes(env.TERM, YAFT)
    \/ env.XTERM_VERSION # ""

\* The terminals the reason string of an unsupported terminal names.
REASON == <<"Kitty", "Ghostty", "iTerm2", "Sixel-compatible terminal">>

\* A detection that tries the terminal type before the terminal program.
detectGraphicsProtocol_SixelFirst(kitty) ==
    IF kitty THEN [protocol |-> "kitty", supported |-> TRUE, reason |-> <<>>]
    ELSE IF supportsSixelGraphics
    THEN [protocol |-> "sixel", supported |-> TRUE, reason |-> <<>>]
    ELSE IF supportsITerm2Graphics
    THEN [protocol |-> "iterm2", supported |-> TRUE, reason |-> <<>>]
    ELSE [protocol |-> "none", supported |-> FALSE, reason |-> REASON]

\* A detection that lets the environment decide before the query's answer.
detectGraphicsProtocol_EnvFirst(kitty) ==
    IF supportsITerm2Graphics
    THEN [protocol |-> "iterm2", supported |-> TRUE, reason |-> <<>>]
    ELSE IF supportsSixelGraphics
    THEN [protocol |-> "sixel", supported |-> TRUE, reason |-> <<>>]
    ELSE IF kitty THEN [protocol |-> "kitty", supported |-> TRUE, reason |-> <<>>]
    ELSE [protocol |-> "none", supported |-> FALSE, reason |-> REASON]

\* detectGraphicsProtocol, given what supportsKittyGraphics resolved to.
detectGraphicsProtocol(kitty) ==
    IF kitty THEN [protocol |-> "kitty", supported |-> TRUE, reason |-> <<>>]
    ELSE IF supportsITerm2Graphics
    THEN [protocol |-> "iterm2", supported |-> TRUE, reason |-> <<>>]
    ELSE IF supportsSixelGraphics
    THEN [protocol |-> "sixel", supported |-> TRUE, reason |-> <<>>]
    ELSE [protocol |-> "none", supported |-> FALSE, reason |-> REASON]

\* TerminalDisplay.initialize after detection. Inside BrowserPlugin's try:
\* an unsupported terminal is thrown, logged and thrown again; otherwise the
\* protocol is kept and start-up goes on to logManager.initialize(). Called
\* again on the display later: the protocol is assigned, or the error thrown
\* to that caller before the assignment.
displayInitialize(c) ==
    IF plugin.pc \in {"new", "display"}
    THEN IF ~c.supported
         THEN [plugin EXCEPT !.pc = "failed", !.error = "display", !.inits = @ + 1]
         ELSE [plugin EXCEPT !.pc = "logs", !.protocol = c.protocol, !.inits = @ + 1]
    ELSE [plugin EXCEPT !.protocol = IF c.supported THEN c.protocol ELSE @,
                        !.inits = @ + 1]

\* The promise of supportsKittyGraphics resolves with k, and with it
\* everything that awaits it: detectGraphicsProtocol, display.initialize.
resolve(k, by) ==
    /\ detect' = [detect EXCEPT !.pc = "done",
                                !.answer = IF k THEN "yes" ELSE "no", !.by = by]
    /\ caps' = detectGraphicsProtocol(k)
    /\ plugin' = displayInitialize(detectGraphicsProtocol(k))

\* A cleanup that cancels the timer and leaves the listener registered.
probeCleanup_KeepsListener(kp) ==
    /\ kittyProbe' = [kp EXCEPT !.timer = FALSE]
    /\ stdinMode' = [isRaw |-> IF stdinTTY THEN FALSE ELSE stdinMode.isRaw,
                     flowing |-> FALSE, listening |-> stdinMode.listening]
    /\ io' = io \o (IF stdinTTY THEN <<"setRawMode(false)">> ELSE <<>>)
                \o <<"pause">>

\* cleanup of supportsKittyGraphics, kp being the closure as the caller left it.
probeCleanup(kp) ==
    /\ kittyProbe' = [kp EXCEPT !.timer = FALSE]
    /\ stdinMode' = [isRaw |-> IF stdinTTY THEN FALSE ELSE stdinMode.isRaw,
                     flowing |-> FALSE, listening |-> FALSE]
    /\ io' = io \o <<"removeListener">>
                \o (IF stdinTTY THEN <<"setRawMode(false)">> ELSE <<>>)
                \o <<"pause">>

\* A probe that queries the terminal whether or not one is attached.
ProbeAttempted_Always == TRUE

\* supportsKittyGraphics: `if (!process.stdout.isTTY) return false`, negated.
ProbeAttempted == stdoutTTY

\* The promise executor of supportsKittyGraphics: a new closure with its
\* timer armed, the input made raw and flowing, the listener registered and
\* the query written. (nchunks counts the model's input budget, not a field.)
probeStart ==
    /\ kittyProbe' = [KittyProbeIdle EXCEPT !.timer = TRUE,
                                            !.nchunks = kittyProbe.nchunks]
    /\ stdinMode' = [isRaw |-> IF stdinTTY THEN TRUE ELSE stdinMode.isRaw,
                     flowing |-> TRUE, listening |-> TRUE]
    /\ io' = io \o (IF stdinTTY THEN <<"setRawMode(true)">> ELSE <<>>)
                \o <<"resume", "on(data)", "write(query)">>

\* BrowserPlugin up to its first suspension: display.initialize() calls
\* detectGraphicsProtocol, which calls supportsKittyGraphics. Without a
\* terminal the whole detection is decided at once; with one, the query is
\* written and the promise waits for the answer or the timer.
PluginStart ==
    /\ plugin.pc = "new"
    /\ IF ~ProbeAttempted
       THEN /\ resolve(FALSE, "notty")
            /\ UNCHANGED <<stdinMode, io, kittyProbe>>
       ELSE /\ probeStart
            /\ detect' = [detect EXCEPT !.pc = "probing"]
            /\ plugin' = [plugin EXCEPT !.pc = "display"]
            /\ caps' = caps
    /\ UNCHANGED <<stdoutTTY, stdinTTY, env>>
    /\ UNCHANGED <<sessionVars, awritVars, envVars, callVars, logVars>>
    /\ UNCHANGED <<rendered, fileVars>>

\* onData of supportsKittyGraphics
onData(data) ==
    LET kp == [kittyProbe EXCEPT !.response = @ \o data, !.nchunks = @ + 1] IN
    IF StrIncludes(kp.response, MARKER)
    THEN probeCleanup(kp) /\ resolve(TRUE, "data")
    ELSE kittyProbe' = kp /\ UNCHANGED <<stdinMode, io, detect, caps, plugin>>

\* stdin delivers a chunk to the listener.
DataEvent(data) ==
    /\ stdinMode.listening
    /\ kittyProbe.nchunks < MaxChunks
    /\ onData(data)
    /\ UNCHANGED <<stdoutTTY, stdinTTY, env>>
    /\ UNCHANGED <<sessionVars, awritVars, envVars, callVars, logVars>>
    /\ UNCHANGED <<rendered, fileVars>>

\* A timeout callback that cleans up and forgets to resolve.
onTimeout_NoResolve ==
    probeCleanup(kittyProbe) /\ UNCHANGED <<detect, caps, plugin>>

\* The timeout callback of supportsKittyGraphics.
onTimeout == probeCleanup(kittyProbe) /\ resolve(FALSE, "timeout")

\* The timer of the probe is due and its callback runs.
TimeoutFires ==
    /\ kittyProbe.timer /\ kittyProbe.elapsed >= TimeoutMs
    /\ onTimeout
    /\ UNCHANGED <<stdoutTTY, stdinTTY, env>>
    /\ UNCHANGED <<sessionVars, awritVars, envVars, callVars, logVars>>
    /\ UNCHANGED <<rendered, fileVars>>

\* Time passes while the timer is pending, up to the moment it is due.
Tick ==
    /\ kittyProbe.timer /\ kittyProbe.elapsed < TimeoutMs
    /\ kittyProbe' = [kittyProbe EXCEPT !.elapsed =
                         IF @ + TickMs > TimeoutMs THEN TimeoutMs ELSE @ + TickMs]
    /\ UNCHANGED <<stdoutTTY, stdinTTY, env, stdinMode, io, detect, caps, plugin>>
    /\ UNCHANGED <<sessionVars, awritVars, envVars, callVars, logVars>>
    /\ UNCHANGED <<rendered, fileVars>>

\* logManager.initialize() settles: start-up goes on to session.initialize(),
\* or the file system's error ends it.
LogsInitDone ==
    /\ plugin.pc = "logs"
    /\ \/ plugin' = [plugin EXCEPT !.pc = "session"]
       \/ plugin' = [plugin EXCEPT !.pc = "failed", !.error = "logs"]
    /\ UNCHANGED <<stdoutTTY, stdinTTY, env, stdinMode, io, kittyProbe, detect, caps>>
    /\ UNCHANGED <<sessionVars, awritVars, envVars, callVars, logVars>>
    /\ UNCHANGED <<rendered, fileVars>>

\* session.initialize() settles and BrowserPlugin returns its tools.
SessionInitDone ==
    /\ plugin.pc = "session"
    /\ initialize
    /\ plugin' = [plugin EXCEPT !.pc = "started"]
    /\ UNCHANGED <<stdoutTTY, stdinTTY, env, stdinMode, io, kittyProbe, detect, caps>>
    /\ UNCHANGED <<useAwrit, pageUrl, awritVars, envVars, callVars, logVars>>
    /\ UNCHANGED <<rendered, fileVars>>

\* browser_screenshot: session.screenshot returns the page's bytes, or the
\* page driver's error propagates.
Screenshot ==
    /\ plugin.pc = "started"
    /\ \E r \in (IF page THEN {"bytes", "PageError"} ELSE {"NotInitialized"}) :
          plugin' = [plugin EXCEPT !.shot = r]
    /\ UNCHANGED <<stdoutTTY, stdinTTY, env, stdinMode, io, kittyProbe, detect, caps>>
    /\ UNCHANGED <<sessionVars, awritVars, envVars, callVars, logVars>>
    /\ UNCHANGED <<rendered, fileVars>>

\* The host process starts the plugin on any terminal and environment; raw
\* mode is a property of a terminal's input.
InitProbe ==
    /\ InitSession
    /\ stdoutTTY \in BOOLEAN /\ stdinTTY \in BOOLEAN
    /\ env \in [TERM_PROGRAM : TERM_PROGRAMS, LC_TERMINAL : LC_TERMINALS,
                TERM : TERMS, XTERM_VERSION : XTERM_VERSIONS]
    /\ stdinMode \in [isRaw : BOOLEAN, flowing : BOOLEAN, listening : {FALSE}]
    /\ stdinMode.isRaw => stdinTTY
    /\ InitDetection
    /\ stateFile = "missing" /\ store = StoreNew

NextProbe ==
    \/ PluginStart
    \/ \E data \in CHUNKS : DataEvent(data)
    \/ Tick
    \/ TimeoutFires
    \/ LogsInitDone
    \/ SessionInitDone
    \/ Screenshot

SpecProbe == InitProbe /\ [][NextProbe]_vars

\* Time passes and a due timer's callback runs; nothing obliges the terminal
\* to answer.
FairnessProbe == WF_vars(Tick) /\ WF_vars(TimeoutFires)

FairSpecProbe == SpecProbe /\ FairnessProbe

\* ---------------------------------------------------------------- terminal display

\* /.{1,4096}/g of displayKitty
CHUNK_SIZE == 4096
\* options.width || 80, options.height || 40
DefaultWidth == 80
DefaultHeight == 40

\* The image buffers of the model, by their length in bytes.
BUFFER_SIZES == {0, 1, 3072, 3073, 7500}
\* DisplayOptions: a size is <<>> when it is not given and <<n>> when it is.
DISPLAY_OPTIONS == {[width |-> Unset, height |-> Unset],
                    [width |-> <<120>>, height |-> <<30>>],
                    [width |-> <<0>>, height |-> <<30>>]}

\* The length of imageBuffer.toString('base64').
Base64Len(n) == 4 * ((n + 2) \div 3)

\* A cut into full chunks only, which drops what is left over.
Chunks_DropRemainder(L) == [i \in 1..(L \div CHUNK_SIZE) |-> CHUNK_SIZE]

\* base64Data.match(/.{1,4096}/g) || []: the lengths of the chunks, greedy
\* from the left; none for the empty string.
Chunks(L) ==
    [i \in 1..((L + CHUNK_SIZE - 1) \div CHUNK_SIZE) |->
        IF i * CHUNK_SIZE <= L THEN CHUNK_SIZE ELSE L - (i - 1) * CHUNK_SIZE]

\* `v || d`
OrDefault(v, d) == IF Falsy(v) THEN d ELSE v[1]

\* A flag that is raised on the last chunk and lowered on the others.
moreFlag_Inverted(i, n) == IF i = n THEN 1 ELSE 0

\* const m = isLast ? 0 : 1
moreFlag(i, n) == IF i = n THEN 0 ELSE 1

\* One process.stdout.write: an escape sequence of some kind with the keys
\* it carries and the length of its base64 payload, or plain text.
Write(kind, meta, width, height, m, len, nl) ==
    [kind |-> kind, meta |-> meta, width |-> width, height |-> height,
     m |-> m, len |-> len, nl |-> nl]

Newline == Write("text", FALSE, 0, 0, 0, 0, TRUE)

\* displayKitty: one control sequence per chunk, the first with the transfer's
\* keys (f, a, t, s, v, m), the others with m only; then a newline.
displayKitty(n, o) ==
    LET ch == Chunks(Base64Len(n)) IN
    [out |-> [i \in 1..Len(ch) |->
                 IF i = 1
                 THEN Write("kitty", TRUE, OrDefault(o.width, DefaultWidth),
                            OrDefault(o.height, DefaultHeight),
                            moreFlag(i, Len(ch)), ch[i], FALSE)
                 ELSE Write("kitty", FALSE, 0, 0, moreFlag(i, Len(ch)), ch[i], FALSE)]
             \o <<Newline>>,
     err |-> <<>>]

\* An inline transfer cut into chunks like a kitty transfer.
displayITerm2_Chunked(n, o) ==
    LET ch == Chunks(Base64Len(n)) IN
    [out |-> [i \in 1..Len(ch) |->
                 Write("iterm2", TRUE, OrDefault(o.width, DefaultWidth),
                       OrDefault(o.height, DefaultHeight), 0, ch[i], TRUE)],
     err |-> <<>>]

\* displayITerm2: one write, ESC ] 1337 ; File=inline=1 with width, height
\* and the whole payload, BEL and a newline.
displayITerm2(n, o) ==
    [out |-> <<Write("iterm2", TRUE, OrDefault(o.width, DefaultWidth),
                     OrDefault(o.height, DefaultHeight), 0, Base64Len(n), TRUE)>>,
     err |-> <<>>]

\* The three console.error lines of displaySixel.
SixelNotice == <<"Sixel protocol requires external conversion (libsixel).",
                 "Falling back to file-based display.",
                 "Screenshot saved. View with: chafa <file>">>

\* A sixel display that sends the image the kitty way after its notice.
displaySixel_Inline(n, o) == [out |-> displayKitty(n, o).out, err |-> SixelNotice]

\* displaySixel
displaySixel(n, o) == [out |-> <<>>, err |-> SixelNotice]

\* A dispatch whose default case renders the kitty way.
displayImage_DefaultKitty(n, o) ==
    LET w == IF plugin.protocol = "iterm2" THEN displayITerm2(n, o)
             ELSE IF plugin.protocol = "sixel" THEN displaySixel(n, o)
             ELSE displayKitty(n, o)
    IN [outcome |-> "ok", protocol |-> plugin.protocol, bytes |-> n, options |-> o, out |-> w.out, err |-> w.err]

\* TerminalDisplay.displayImage: the switch over this.protocol; the default
\* case throws 'No graphics protocol available'.
displayImage(n, o) ==
    IF plugin.protocol \in {"kitty", "iterm2", "sixel"}
    THEN LET w == IF plugin.protocol = "kitty" THEN displayKitty(n, o)
                  ELSE IF plugin.protocol = "iterm2" THEN displayITerm2(n, o)
                  ELSE displaySixel(n, o)
         IN [outcome |-> "ok", protocol |-> plugin.protocol, bytes |-> n, options |-> o, out |-> w.out, err |-> w.err]
    ELSE [outcome |-> "NoProtocol", protocol |-> plugin.protocol, bytes |-> n, options |-> o, out |-> <<>>, err |-> <<>>]

\* A display that detects again from the environment on every frame.
protocolAfterDisplay_Redetect == detectGraphicsProtocol(FALSE).protocol

\* displayImage reads this.protocol and never assigns it.
protocolAfterDisplay == plugin.protocol

\* A caller hands the display a frame.
DisplayImage(n, o) ==
    /\ rendered' = displayImage(n, o)
    /\ plugin' = [plugin EXCEPT !.protocol = protocolAfterDisplay]
    /\ UNCHANGED <<stdoutTTY, stdinTTY, env, stdinMode, io, kittyProbe, detect, caps>>
    /\ UNCHANGED <<sessionVars, awritVars, envVars, callVars, logVars, fileVars>>

\* A caller initialises the display again: detection runs anew.
Reinitialize ==
    /\ detect.pc = "done" /\ plugin.inits < MaxInit
    /\ IF ~ProbeAttempted
       THEN /\ resolve(FALSE, "notty")
            /\ UNCHANGED <<stdinMode, io, kittyProbe>>
       ELSE /\ probeStart
            /\ detect' = [detect EXCEPT !.pc = "probing", !.answer = "none",
                                        !.by = "none", !.rawBefore = stdinMode.isRaw]
            /\ UNCHANGED <<caps, plugin>>
    /\ UNCHANGED <<stdoutTTY, stdinTTY, env, rendered>>
    /\ UNCHANGED <<sessionVars, awritVars, envVars, callVars, logVars, fileVars>>

\* A display on its own: a terminal or none, two environment variables.
InitDisplay ==
    /\ InitSession /\ useAwrit = FALSE
    /\ stdoutTTY \in BOOLEAN /\ stdinTTY = stdoutTTY
    /\ env \in [TERM_PROGRAM : {"", "iTerm.app"}, LC_TERMINAL : {""},
                TERM : {<<>>, XTERM_256COLOR}, XTERM_VERSION : {""}]
    /\ stdinMode = [isRaw |-> FALSE, flowing |-> FALSE, listening |-> FALSE]
    /\ InitDetection
    /\ stateFile = "missing" /\ store = StoreNew

NextDisplay ==
    \/ PluginStart
    \/ \E data \in CHUNKS : DataEvent(data)
    \/ Tick
    \/ TimeoutFires
    \/ Reinitialize
    \/ \E n \in BUFFER_SIZES, o \in DISPLAY_OPTIONS : DisplayImage(n, o)

SpecDisplay == InitDisplay /\ [][NextDisplay]_vars

\* ---------------------------------------------------------------- session storage

\* Storage-state documents (what JSON.parse accepts).
STATES == {"s1", "s2"}

\* session-state.json as initialize() finds it: absent; present but not
\* readable; present with text that JSON.parse rejects; or a document.
STATE_FILES == {"missing", "unreadable", "unparsable"} \cup STATES

\* A load that lets the failure of readFile or JSON.parse propagate.
loadStorageState_Strict(file) ==
    [ok |-> file \in STATES, state |-> IF file \in STATES THEN file ELSE "undefined"]

\* try { storageState = JSON.parse(await readFile(...)) } catch {}
loadStorageState(file) ==
    [ok |-> TRUE, state |-> IF file \in STATES THEN file ELSE "undefined"]

\* initialize() stops: the rejection of the step it awaited propagates.
initFails(step) == store' = [store EXCEPT !.pc = "failed", !.error = step]

\* BrowserSessionManager.initialize up to its first await: mkdir when the
\* session directory does not exist, chromium.launch otherwise.
InitStart ==
    /\ store.pc = "new" /\ ~initialized
    /\ initialized' = TRUE
    /\ IF store.dir
       THEN /\ awritManager' = useAwrit
            /\ store' = [store EXCEPT !.pc = "launch"]
       ELSE /\ awritManager' = awritManager
            /\ store' = [store EXCEPT !.pc = "mkdir"]
    /\ UNCHANGED <<browser, context, page, useAwrit, pageUrl>>
    /\ UNCHANGED <<awritVars, envVars, callVars, logVars>>
    /\ UNCHANGED <<stdoutTTY, stdinTTY, env, stdinMode, io, kittyProbe, detect, caps,
                   plugin, rendered, stateFile, logFile>>

\* mkdir settles.
InitMkdirDone ==
    /\ store.pc = "mkdir"
    /\ \/ /\ store' = [store EXCEPT !.pc = "launch", !.dir = TRUE]
          /\ awritManager' = useAwrit
       \/ /\ initFails("mkdir")
          /\ awritManager' = awritManager
    /\ UNCHANGED <<browser, context, page, useAwrit, initialized, pageUrl>>
    /\ UNCHANGED <<awritVars, envVars, callVars, logVars>>
    /\ UNCHANGED <<stdoutTTY, stdinTTY, env, stdinMode, io, kittyProbe, detect, caps,
                   plugin, rendered, stateFile, logFile>>

\* chromium.launch settles; initialize goes on to read the state file.
InitLaunchDone ==
    /\ store.pc = "launch"
    /\ \/ /\ store' = [store EXCEPT !.pc = "read"]
          /\ browser' = TRUE
       \/ /\ initFails("launch")
          /\ browser' = browser
    /\ UNCHANGED <<context, page, awritManager, useAwrit, initialized, pageUrl>>
    /\ UNCHANGED <<awritVars, envVars, callVars, logVars>>
    /\ UNCHANGED <<stdoutTTY, stdinTTY, env, stdinMode, io, kittyProbe, detect, caps,
                   plugin, rendered, stateFile, logFile>>

\* readFile settles and its text is parsed; browser.newContext is called
\* with the storageState that results.
InitReadDone ==
    /\ store.pc = "read"
    /\ LET r == loadStorageState(stateFile) IN
       IF r.ok
       THEN store' = [store EXCEPT !.pc = "context", !.storageState = r.state]
       ELSE initFails("read")
    /\ UNCHANGED sessionVars
    /\ UNCHANGED <<awritVars, envVars, callVars, logVars>>
    /\ UNCHANGED <<stdoutTTY, stdinTTY, env, stdinMode, io, kittyProbe, detect, caps,
                   plugin, rendered, stateFile, logFile>>

\* browser.newContext settles.
InitContextDone ==
    /\ store.pc = "context"
    /\ \/ /\ store' = [store EXCEPT !.pc = "page"]
          /\ context' = TRUE
       \/ /\ initFails("context")
          /\ context' = context
    /\ UNCHANGED <<browser, page, awritManager, useAwrit, initialized, pageUrl>>
    /\ UNCHANGED <<awritVars, envVars, callVars, logVars>>
    /\ UNCHANGED <<stdoutTTY, stdinTTY, env, stdinMode, io, kittyProbe, detect, caps,
                   plugin, rendered, stateFile, logFile>>

\* context.newPage settles; the listeners are set up and initialize returns.
InitPageDone ==
    /\ store.pc = "page"
    /\ \/ /\ store' = [store EXCEPT !.pc = "done"]
          /\ page' = TRUE
       \/ /\ initFails("page")
          /\ page' = page
    /\ UNCHANGED <<browser, context, awritManager, useAwrit, initialized, pageUrl>>
    /\ UNCHANGED <<awritVars, envVars, callVars, logVars>>
    /\ UNCHANGED <<stdoutTTY, stdinTTY, env, stdinMode, io, kittyProbe, detect, caps,
                   plugin, rendered, stateFile, logFile>>

\* The 'session.idle' hook: saveSession up to its first await; it returns at
\* once without a context.
SaveSession ==
    /\ store.pc = "done" /\ store.save = "idle"
    /\ store' = [store EXCEPT !.save = IF context THEN "state" ELSE "idle"]
    /\ UNCHANGED sessionVars
    /\ UNCHANGED <<awritVars, envVars, callVars, logVars>>
    /\ UNCHANGED <<stdoutTTY, stdinTTY, env, stdinMode, io, kittyProbe, detect, caps,
                   plugin, rendered, stateFile, logFile>>

\* context.storageState() settles with the state page activity has left, and
\* writeFile is called with its JSON text.
SaveStateDone(st) ==
    /\ store.save = "state"
    /\ \/ store' = [store EXCEPT !.save = st]
       \/ store' = [store EXCEPT !.save = "idle"]
    /\ UNCHANGED sessionVars
    /\ UNCHANGED <<awritVars, envVars, callVars, logVars>>
    /\ UNCHANGED <<stdoutTTY, stdinTTY, env, stdinMode, io, kittyProbe, detect, caps,
                   plugin, rendered, stateFile, logFile>>

\* writeFile settles: the state file holds the document, or the write failed.
SaveWriteDone ==
    /\ store.save \in STATES
    /\ stateFile' \in {stateFile, store.save}
    /\ store' = [store EXCEPT !.save = "idle"]
    /\ UNCHANGED sessionVars
    /\ UNCHANGED <<awritVars, envVars, callVars, logVars>>
    /\ UNCHANGED <<stdoutTTY, stdinTTY, env, stdinMode, io, kittyProbe, detect, caps,
                   plugin, rendered, logFile>>

\* A session directory that exists or not; a state file can only be in one
\* that exists.
InitStore ==
    /\ InitSession
    /\ stdoutTTY = FALSE /\ stdinTTY = FALSE
    /\ env = NoEnv
    /\ stdinMode = [isRaw |-> FALSE, flowing |-> FALSE, listening |-> FALSE]
    /\ InitDetection
    /\ stateFile \in STATE_FILES
    /\ store \in {[StoreNew EXCEPT !.dir = d] : d \in BOOLEAN}
    /\ ~store.dir => stateFile = "missing"

NextStore ==
    \/ InitStart
    \/ InitMkdirDone
    \/ InitLaunchDone
    \/ InitReadDone
    \/ InitContextDone
    \/ InitPageDone
    \/ SaveSession
    \/ \E st \in STATES : SaveStateDone(st)
    \/ SaveWriteDone

SpecStore == InitStore /\ [][NextStore]_vars

\* ---------------------------------------------------------------- specification
Next ==
    \/ Initialize
    \/ \E u \in URLS : Navigate(u)
    \/ \E c \in Lanes : SettleDone(c)
    \/ \E c \in Lanes : GotoDone(c)
    \/ Scroll(PAGE_DOWN)
    \/ \E c \in Lanes : ScrollPageDone(c)
    \/ Close
    \/ \E c \in Lanes : CloseSaveDone(c)
    \/ \E c \in Lanes : CloseBrowserDone(c)
    \/ \E p \in Procs : ExitEvent(p)
    \/ \E p \in Procs : ErrorEvent(p)

Spec == Init /\ [][Next]_vars

\* The session's operations that reach the command channel, with every scroll
\* operation and no close: what is written to the renderer's stdin.
NextCmd ==
    \/ Initialize
    \/ \E u \in URLS : Navigate(u)
    \/ \E c \in Lanes : SettleDone(c)
    \/ \E c \in Lanes : GotoDone(c)
    \/ \E s \in SCROLLS : Scroll(s)
    \/ \E c \in Lanes : ScrollPageDone(c)
    \/ \E p \in Procs : ErrorEvent(p)

SpecCmd == Init /\ [][NextCmd]_vars

\* BrowserPlugin's event hook: session.close() on 'session.deleted'. The hooks
\* are handed to the host after session.initialize() has resolved.
CloseHook == initialized /\ Close

\* Navigate calls that overlap, and the renderer's process events.
NextNav ==
    \/ Initialize
    \/ \E u \in URLS : Navigate(u)
    \/ \E u \in URLS : NavigateConcurrent(u)
    \/ \E c \in Lanes : SettleDone(c)
    \/ \E c \in Lanes : GotoDone(c)
    \/ \E p \in Procs : ExitEvent(p)
    \/ \E p \in Procs : ErrorEvent(p)

SpecNav == Init /\ [][NextNav]_vars

\* The session with every page-control operation.
NextOps ==
    \/ Initialize
    \/ \E u \in URLS : Navigate(u)
    \/ \E c \in Lanes : SettleDone(c)
    \/ \E c \in Lanes : GotoDone(c)
    \/ \E s \in SCROLLS : Scroll(s)
    \/ \E o \in PAGE_OPS : PageOp(o)
    \/ \E c \in Lanes : ScrollPageDone(c)
    \/ CloseHook
    \/ \E c \in Lanes : CloseSaveDone(c)
    \/ \E c \in Lanes : CloseBrowserDone(c)
    \/ \E p \in Procs : ExitEvent(p)
    \/ \E p \in Procs : ErrorEvent(p)

SpecOps == Init /\ [][NextOps]_vars

\* A child that was sent SIGTERM while running exits.
KilledExit(p) == procs[p].killed /\ ExitEvent(p)

\* Timers fire, I/O promises settle, pending process events are delivered and
\* a signalled child exits; nothing obliges the caller to issue operations or
\* an unsignalled child to exit.
Fairness ==
    /\ \A c \in Lanes : WF_vars(SettleDone(c))
    /\ \A c \in Lanes : WF_vars(GotoDone(c))
    /\ \A c \in Lanes : WF_vars(ScrollPageDone(c))
    /\ \A c \in Lanes : WF_vars(CloseSaveDone(c))
    /\ \A c \in Lanes : WF_vars(CloseBrowserDone(c))
    /\ \A p \in Procs : WF_vars(ErrorEvent(p))
    /\ \A p \in Procs : WF_vars(KilledExit(p))

FairSpec == Spec /\ Fairness

TypeOK ==
    /\ browser \in BOOLEAN /\ context \in BOOLEAN /\ page \in BOOLEAN
    /\ awritManager \in BOOLEAN /\ useAwrit \in BOOLEAN /\ initialized \in BOOLEAN
    /\ pageUrl \in URLS \cup {"none"}
    /\ process \in 0..MaxSpawn /\ ready \in BOOLEAN
    /\ nspawn \in 0..MaxSpawn
    /\ \A p \in Procs : procs[p].st \in {"unspawned", "running", "failed", "exited"}
    /\ \A c \in Lanes : calls[c].pc \in
          {"idle", "settle", "goto", "pageaction", "save", "stopwait", "browserclose"}


\* ---------------------------------------------------------------- properties

\* Child p exited without having been sent a signal.
Unexpected(p) == procs[p].st = "exited" /\ ~procs[p].killed

\* The lines written to the stdin of child p.
LinesTo(p) == SelectSeq(written, LAMBDA w : w.proc = p)

\* The supervisor lost its process to an unexpected exit out of Ready and
\* tracks nothing.
CrashedFromReady ==
    /\ process = 0 /\ ~ready
    /\ \E p \in Procs : Unexpected(p) /\ procs[p].at = "Ready"

\* This step is the return of lane c's scroll operation.
ScrollReturn(c) == calls[c].pc = "pageaction" /\ calls'[c].pc = "idle"

\* This step is one in which lane c's operation calls sendCommand: the mirror
\* of a scroll whose page action succeeded, or of a navigate past start.
SendStep(c) ==
    \/ ScrollReturn(c) /\ returned'.outcome = "ok" /\ awritManager
    \/ c = "navigate" /\ calls[c].pc = "idle" /\ calls'[c].pc = "goto" /\ awritManager

\* What that sendCommand did: "written" or "reported".
MirrorAfter(c) == IF calls'[c].pc = "goto" THEN calls'[c].mirror ELSE returned'.mirror

\* C1: when the child exits unexpectedly during start()'s settle delay, the
\* supervisor is not ready and tracks no process once start() returns.
C1_NotReadyAfterExitWhileStarting ==
    [][\A c \in Lanes :
          (/\ calls[c].pc = "settle" /\ calls'[c].pc # "settle"
           /\ Unexpected(calls[c].p) /\ procs[calls[c].p].at = "Starting")
          => (~ready' /\ process' = 0)]_vars

C3_CloseRunsEveryStep ==
    returned.op = "close" => returned.steps = {"save", "stop", "browser"}

\* C4: navigate never returns the renderer's failure to its caller.
C4_NavigateAbsorbsRendererFailure ==
    ~(returned.op = "navigate" /\ returned.outcome = "RendererError")

\* C5: once a child has exited unexpectedly, no later step launches a new
\* child or moves the supervisor to Starting or Ready.
C5_CrashedIsTerminal ==
    [][(\E p \in Procs : Unexpected(p))
          => /\ nspawn' = nspawn
             /\ SupState' \in {"Starting", "Ready"} => SupState' = SupState]_vars

\* C6: a stop() that is waiting for the exit of a child it tracked with its
\* handlers registered (a child still running, or one whose launch failed and
\* was reported by 'error') eventually returns.
C6_StopCompletes ==
    \A c \in Lanes :
        (calls[c].pc = "stopwait" /\ procs[calls[c].p].stdin)
            ~> (calls[c].pc # "stopwait")

\* C7: once a child has reported 'error', the supervisor is not Ready on it
\* and no line is written to its stdin.
C7_ErrorCrashesSupervisor ==
    \A p \in Procs :
        procs[p].errSeen => (~(process = p /\ ready) /\ LinesTo(p) = <<>>)

\* C8: a line is written only when the supervisor is Ready on a child with a
\* stdin pipe, and then exactly one line goes to that child; a sendCommand in
\* any other state writes nothing and logs the failed precondition, and the
\* caller's operation goes on without the renderer's error.
C8_SendCommandGuard ==
    [][/\ written' # written
            => /\ SupState = "Ready" /\ procs[process].stdin
               /\ Len(written') = Len(written) + 1
               /\ SubSeq(written', 1, Len(written)) = written
               /\ written'[Len(written')].proc = process
       /\ \A c \in Lanes :
            (SendStep(c) /\ ~(SupState = "Ready" /\ procs[process].stdin))
            => (written' = written /\ MirrorAfter(c) = "reported")
       /\ \A c \in Lanes :
            ScrollReturn(c) => returned'.outcome \in {"ok", "PageError"}]_vars

\* C8 witness: a scroll was mirrored while the supervisor was Starting on a
\* child with a stdin pipe; nothing was written and the no-op was logged.
C8_Witness ==
    /\ SupState = "Starting" /\ procs[process].stdin
    /\ calls["navigate"].pc = "settle"
    /\ written = <<>>
    /\ returned = Ret("scroll", "ok", {}, "reported")

\* The messages of s are in arrival order.
InArrivalOrder(s) == \A i, j \in 1..Len(s) : i < j => s[i].n < s[j].n

Elems(s) == {s[i] : i \in 1..Len(s)}

\* C9: getConsoleLogs() is the sequence of console messages delivered (since
\* the last clear) in arrival order, and getConsoleLogs(severity) holds
\* exactly the delivered messages of that severity, in arrival order.
C9_ConsoleOrderAndFilter ==
    /\ getConsoleLogs("none") = arrived
    /\ \A f \in ConsoleFilters \ {"none"} :
        /\ InArrivalOrder(getConsoleLogs(f))
        /\ Elems(getConsoleLogs(f)) = {m \in Elems(arrived) : m.type = f}
        /\ Len(getConsoleLogs(f)) = Cardinality(Elems(getConsoleLogs(f)))

\* C9 witness: messages of two severities were delivered and a filtered
\* retrieval returned some of them and not all.
C9_Witness ==
    /\ Len(arrived) = 3 /\ arrived[1].type = "error" /\ arrived[2].type = "log"
    /\ arrived[3].type = "error"
    /\ got.kind = "console" /\ got.result = <<arrived[1], arrived[3]>>

\* C10: with no event delivered since clearLogs(), both buffers are empty and
\* every retrieval returns the empty sequence, whatever was delivered or in
\* flight before the clear.
C10_ClearEmptiesBoth ==
    /\ sinceClear = "clean"
         => /\ consoleLogs = <<>> /\ networkRequests = <<>>
            /\ \A f \in ConsoleFilters : getConsoleLogs(f) = <<>>
            /\ \A uf \in UrlFilters : getNetworkRequests(uf) = <<>>
    /\ got.after = "clean" => got.result = <<>>

\* C10 witness: events were delivered, a request is still in flight, the logs
\* were cleared and the network retrieval right after returned nothing.
C10_Witness ==
    /\ sinceClear = "clean" /\ nevents >= 2
    /\ \E u \in URLS : inflight[u] > 0
    /\ got.kind = "network" /\ got.after = "clean"

\* The response listener assigned entry i's status in this step.
Resolves(i, u) ==
    /\ Len(networkRequests') = Len(networkRequests)
    /\ networkRequests' = [networkRequests EXCEPT ![i].status = networkRequests'[i].status]
    /\ networkRequests'[i].status # Unset
    /\ networkRequests[i].url = u

\* The earliest-recorded entries for u whose status is undefined.
EarliestUnset(u) ==
    {i \in 1..Len(networkRequests) :
        /\ networkRequests[i].url = u /\ networkRequests[i].status = Unset
        /\ \A j \in 1..(i - 1) :
              ~(networkRequests[j].url = u /\ networkRequests[j].status = Unset)}

\* This step delivers a response for u.
ResponseStep(u) == inflight'[u] = inflight[u] - 1

\* C11: every recorded network entry undergoes at most one status transition:
\* once an entry's status has been set by a response, no later response
\* changes it, whatever status values the responses carry.
C11_AtMostOneStatusTransition ==
    [][\A i \in 1..Len(networkRequests) :
          (/\ networkRequests[i].status # Unset
           /\ Len(networkRequests') >= i
           /\ networkRequests'[i].n = networkRequests[i].n)
          => networkRequests'[i].status = networkRequests[i].status]_vars

\* C12: a response for u sets the status of the earliest-recorded entry with
\* that url and an undefined status and changes nothing else; when there is
\* no such entry it changes nothing; and the number of network entries grows
\* only when a request is delivered.
C12_ResponseResolvesEarliestUnset ==
    [][/\ \A u \in URLS :
            ResponseStep(u)
            => IF EarliestUnset(u) = {}
               THEN networkRequests' = networkRequests
               ELSE \A i \in EarliestUnset(u) : Resolves(i, u)
       /\ Len(networkRequests') > Len(networkRequests) => nevents' = nevents + 1]_vars


\* The terminal types of the model that contain xterm, mlterm or yaft.
SixelTerms == {XTERM_256COLOR, MLTERM, YAFT_256COLOR}

\* The environment names the iTerm2 terminal program.
ITermEnv == env.TERM_PROGRAM = "iTerm.app" \/ env.LC_TERMINAL = "iTerm2"

\* The environment names a terminal type known for sixel.
SixelEnv == env.TERM \in SixelTerms \/ env.XTERM_VERSION # ""

\* C13: when detection has returned, the terminal input is in the raw mode
\* it was in before detection started: raw if it was raw, not raw if it was not.
C13_InputModeRestored ==
    detect.pc = "done" => stdinMode.isRaw = detect.rawBefore

\* C14: the probes are tried in strict order and the first success wins:
\* the query probe succeeds exactly when a terminal is attached and its input
\* delivered the marker before the timer; the result is kitty exactly when
\* the query probe succeeded, iterm2 exactly when it failed and the
\* environment names iTerm2, sixel exactly when both failed and the terminal
\* type is a sixel one, and otherwise none, unsupported, with a reason.
C14_StrictOrderFirstSuccessWins ==
    detect.pc = "done" =>
        /\ detect.answer \in {"yes", "no"}
        /\ detect.answer = "yes" <=> (stdoutTTY /\ StrIncludes(kittyProbe.response, MARKER))
        /\ caps.protocol = "kitty" <=> detect.answer = "yes"
        /\ caps.protocol = "iterm2" <=> (detect.answer = "no" /\ ITermEnv)
        /\ caps.protocol = "sixel" <=> (detect.answer = "no" /\ ~ITermEnv /\ SixelEnv)
        /\ caps.protocol = "none" <=> (detect.answer = "no" /\ ~ITermEnv /\ ~SixelEnv)
        /\ caps.supported <=> caps.protocol # "none"
        /\ caps.protocol = "none" => caps.reason # <<>>

\* C14 witness: the query went unanswered until the timer, the environment
\* names both iTerm2 and an xterm terminal type, and the result is iterm2.
C14_Witness ==
    /\ detect.pc = "done" /\ detect.by = "timeout"
    /\ env.TERM_PROGRAM = "iTerm.app" /\ env.TERM = XTERM_256COLOR
    /\ caps.protocol = "iterm2"

\* C15: a started query probe is never pending later than TimeoutMs after it
\* started and always resolves; when the timer resolves it no marker has been
\* received, the probe has failed, and the result is what the environment
\* probes give.
C15_QueryProbeBounded ==
    /\ [](detect.pc = "probing" => kittyProbe.elapsed <= TimeoutMs)
    /\ [](detect.by = "timeout"
            => /\ ~StrIncludes(kittyProbe.response, MARKER)
               /\ detect.answer = "no"
               /\ kittyProbe.elapsed = TimeoutMs
               /\ caps.protocol = IF ITermEnv THEN "iterm2"
                                  ELSE IF SixelEnv THEN "sixel" ELSE "none")
    /\ (detect.pc = "probing" ~> detect.pc = "done")

\* C15 witness: the terminal sent part of an answer, the timer resolved the
\* probe as failed and the terminal type decided.
C15_Witness ==
    /\ detect.pc = "done" /\ detect.by = "timeout" /\ detect.answer = "no"
    /\ kittyProbe.response = <<ESC, "_", "G">>
    /\ kittyProbe.elapsed = TimeoutMs
    /\ caps.protocol = "sixel"

\* C16: with no terminal attached detection never touches the streams:
\* nothing is written, the input mode is not changed and no listener is
\* registered; and with TERM_PROGRAM=iTerm.app its result is iterm2.
C16_NoTtyITermWithoutIo ==
    ~stdoutTTY =>
        /\ io = <<>>
        /\ stdinMode.isRaw = detect.rawBefore /\ ~stdinMode.listening
        /\ (detect.pc = "done" /\ env.TERM_PROGRAM = "iTerm.app")
              => caps.protocol = "iterm2"

\* C16 witness: output is not a terminal (input is one, in raw mode),
\* TERM_PROGRAM is iTerm.app, and detection returned iterm2 at once.
C16_Witness ==
    /\ ~stdoutTTY /\ stdinTTY /\ stdinMode.isRaw
    /\ env.TERM_PROGRAM = "iTerm.app"
    /\ detect.pc = "done" /\ detect.by = "notty"
    /\ caps.protocol = "iterm2" /\ plugin.pc = "logs"

\* C17: when the terminal's answer, marker included, has arrived before the
\* timer, the result is kitty, whatever the environment holds.
C17_AnsweredQueryIsKitty ==
    (detect.pc = "done" /\ detect.by = "data" /\ StrIncludes(kittyProbe.response, MARKER))
        => (caps.protocol = "kitty" /\ caps.supported)

\* C17 witness: the marker arrived in two chunks within the timeout, in an
\* environment that names iTerm2 and an xterm terminal type; the result is kitty.
C17_Witness ==
    /\ detect.pc = "done" /\ detect.by = "data"
    /\ kittyProbe.response = MARKER /\ kittyProbe.nchunks = 2
    /\ kittyProbe.elapsed < TimeoutMs
    /\ env.TERM_PROGRAM = "iTerm.app" /\ env.LC_TERMINAL = "iTerm2"
    /\ env.TERM = XTERM_256COLOR /\ env.XTERM_VERSION # ""
    /\ caps.protocol = "kitty"

\* C18 as stated: with TERM=xterm-256color and no terminal attached the
\* result is sixel.
C18_XtermNoTtyIsSixel ==
    (detect.pc = "done" /\ ~stdoutTTY /\ env.TERM = XTERM_256COLOR)
        => caps.protocol = "sixel"

\* C18 amended: with TERM=xterm-256color, no terminal attached, and neither
\* TERM_PROGRAM=iTerm.app nor LC_TERMINAL=iTerm2, the result is sixel.
C18_XtermNoTtyNoITermIsSixel ==
    (/\ detect.pc = "done" /\ ~stdoutTTY /\ env.TERM = XTERM_256COLOR
     /\ env.TERM_PROGRAM # "iTerm.app" /\ env.LC_TERMINAL # "iTerm2")
        => (caps.protocol = "sixel" /\ caps.supported)

\* C18 witness: only TERM is set, to xterm-256color, no terminal is attached
\* and detection returned sixel.
C18_Witness ==
    /\ detect.pc = "done" /\ ~stdoutTTY /\ ~stdinTTY
    /\ env = [NoEnv EXCEPT !.TERM = XTERM_256COLOR]
    /\ caps.protocol = "sixel"

\* C19: with no terminal attached and nothing recognised in the environment
\* the result is none and its reason names Kitty, Ghostty, iTerm2, WezTerm
\* and Sixel-compatible terminals.
C19_NoneReasonNamesTerminals ==
    (detect.pc = "done" /\ ~stdoutTTY /\ ~ITermEnv /\ ~SixelEnv)
        => /\ caps.protocol = "none" /\ ~caps.supported
           /\ {"Kitty", "Ghostty", "iTerm2", "WezTerm", "Sixel-compatible terminal"}
                 \subseteq Elems(caps.reason)

\* C20: when detection yields none, terminal-display initialisation does not
\* raise and plugin start-up does not fail on it.
C20_NoneDoesNotFailStartup ==
    (detect.pc = "done" /\ caps.protocol = "none") => plugin.error # "display"

\* The control sequences among the writes of the last displayImage call.
ControlSeqs == SelectSeq(rendered.out, LAMBDA w : w.kind # "text")

\* The length of the base64 payload of the last frame.
PayloadLen == Base64Len(rendered.bytes)

\* C21: the stored capability changes only when an initialisation of the
\* display completes; displaying a frame leaves the stored capability and
\* the detection result as they are and makes no call of the query probe.
C21_CapabilityFixedBetweenInits ==
    [][/\ rendered' # rendered
            => /\ plugin'.protocol = plugin.protocol /\ caps' = caps
               /\ io' = io /\ kittyProbe' = kittyProbe /\ detect' = detect
               /\ stdinMode' = stdinMode
       /\ plugin'.protocol # plugin.protocol
            => plugin'.inits = plugin.inits + 1]_vars

\* C21 witness: on a terminal, the first detection (one query, unanswered)
\* chose iterm2, frames have been displayed since, and the display still
\* holds iterm2 with that one query on record.
C21_Witness ==
    /\ stdoutTTY /\ plugin.inits = 1 /\ detect.by = "timeout"
    /\ plugin.protocol = "iterm2" /\ caps.protocol = "iterm2"
    /\ rendered.outcome = "ok" /\ rendered.protocol = "iterm2"
    /\ Len(SelectSeq(io, LAMBDA x : x = "write(query)")) = 1

\* C22: a displayImage call made while the capability is none, before
\* initialize has run included, writes nothing to the terminal output.
C22_NoneRendersNothing ==
    rendered.protocol = "none" => rendered.out = <<>>

\* C22 witness: a frame of 7500 bytes was handed to the display before
\* detection had started; nothing was written.
C22_Witness ==
    /\ detect.pc = "idle" /\ plugin.protocol = "none"
    /\ rendered.outcome = "NoProtocol" /\ rendered.bytes = 7500
    /\ rendered.out = <<>>

\* C23: under kitty a non-empty payload of length L is sent as ceil(L/4096)
\* control sequences, all but the last of 4096 characters with flag 1, the
\* last with the remainder and flag 0; L = 10000 gives three with flags 1,1,0.
C23_KittyChunking ==
    (rendered.protocol = "kitty" /\ PayloadLen > 0) =>
        LET cs == ControlSeqs
            n == Len(cs)
        IN /\ n >= 1 /\ (n - 1) * 4096 < PayloadLen /\ PayloadLen <= n * 4096
           /\ \A i \in 1..(n - 1) : cs[i].len = 4096 /\ cs[i].m = 1
           /\ cs[n].len = PayloadLen - (n - 1) * 4096 /\ cs[n].m = 0
           /\ PayloadLen = 10000 => (n = 3 /\ <<cs[1].m, cs[2].m, cs[3].m>> = <<1, 1, 0>>)

\* C23 witness: a 7500-byte frame (10000 base64 characters) was displayed
\* under kitty in three control sequences followed by the newline.
C23_Witness ==
    /\ rendered.protocol = "kitty" /\ rendered.bytes = 7500
    /\ Len(rendered.out) = 4 /\ rendered.out[3].len = 1808

\* C24: every kitty transfer, of an empty buffer included, emits exactly one
\* control sequence with m=0, and it is the last control sequence emitted.
C24_KittyTransferTerminates ==
    rendered.protocol = "kitty" =>
        /\ Len(ControlSeqs) >= 1
        /\ ControlSeqs[Len(ControlSeqs)].m = 0
        /\ Cardinality({i \in 1..Len(ControlSeqs) : ControlSeqs[i].m = 0}) = 1

\* C29: under iterm2 a frame is one write, a single control sequence that
\* carries the whole payload and the width and height, given or default.
C29_ITerm2SingleSequence ==
    rendered.protocol = "iterm2" =>
        /\ Len(rendered.out) = 1
        /\ rendered.out[1].kind = "iterm2" /\ rendered.out[1].meta
        /\ rendered.out[1].len = PayloadLen
        /\ rendered.out[1].width =
              (IF Falsy(rendered.options.width) THEN 80 ELSE rendered.options.width[1])
        /\ rendered.out[1].height =
              (IF Falsy(rendered.options.height) THEN 40 ELSE rendered.options.height[1])

\* C29 witness: a 7500-byte frame was displayed under iterm2 at 120 by 30
\* cells in one control sequence of 10000 payload characters.
C29_Witness ==
    /\ rendered.protocol = "iterm2" /\ rendered.bytes = 7500
    /\ rendered.options.width = <<120>>
    /\ Len(rendered.out) = 1 /\ rendered.out[1].len = 10000

\* C30: under sixel displayImage writes nothing to the terminal output,
\* emits informational text only, and returns without raising.
C30_SixelNoInlineTransfer ==
    rendered.protocol = "sixel" =>
        /\ rendered.out = <<>>
        /\ rendered.err # <<>>
        /\ rendered.outcome = "ok"

\* C30 witness: a 7500-byte frame was handed to a sixel display, which
\* returned after its three lines of notice.
C30_Witness ==
    /\ rendered.protocol = "sixel" /\ rendered.bytes = 7500
    /\ rendered.outcome = "ok" /\ Len(rendered.err) = 3

\* The severities of a ConsoleEvent.
SEVERITIES == {"log", "info", "warn", "error", "debug"}

\* C28: every recorded console event has a severity among log, info, warn,
\* error and debug, whatever type the page driver delivered.
C28_RecordedSeverityInEnum ==
    \A i \in 1..Len(consoleLogs) : consoleLogs[i].type \in SEVERITIES

\* C25: every line written to the command channel holds exactly one line
\* break, and it is the last character, whatever command and arguments the
\* session's operations passed.
C25_OneLinePerCommand ==
    \A i \in 1..Len(written) :
        LET t == written[i].line IN
        /\ t[Len(t)] = NL
        /\ Cardinality({k \in 1..Len(t) : t[k] = NL}) = 1

\* No child has exited and no launch has failed.
CrashFree == \A p \in Procs : procs[p].st \in {"unspawned", "running"}

\* This step is a navigate call passing its precondition check.
NavigateStep == calls["navigate"].pc = "idle" /\ calls'["navigate"].pc # "idle"

\* C27: with a renderer configured and no crash, a navigate(url) that finds
\* no renderer started launches one with url as its initial URL and writes
\* nothing; any later navigate launches nothing and writes the one line
\* 'navigate <url>' to the running child; the page is then driven to that
\* same url; so at most one renderer is ever launched.
C27_NavigateStartsOnceThenMirrors ==
    [][/\ CrashFree' => nspawn' <= 1
       /\ (NavigateStep /\ awritManager /\ CrashFree') =>
             LET u == calls'["navigate"].url IN
             IF nspawn = 0
             THEN /\ nspawn' = 1 /\ process' = 1
                  /\ procs'[1].arg = u
                  /\ written' = written
                  /\ calls'["navigate"].pc = "settle"
             ELSE /\ nspawn' = nspawn /\ process' = process
                  /\ written' = Append(written,
                                       [proc |-> process,
                                        line |-> <<"navigate", " ", u, NL>>])
                  /\ calls'["navigate"].pc = "goto"
       /\ (calls["navigate"].pc = "settle" /\ calls'["navigate"].pc = "goto")
             => calls'["navigate"].url = calls["navigate"].url
       /\ (calls["navigate"].pc = "goto" /\ calls'["navigate"].pc = "idle"
           /\ returned'.outcome = "ok")
             => pageUrl' = calls["navigate"].url]_vars

\* C27 witness: without a crash, navigate(u1) launched the renderer on u1 and
\* navigate(u2) was mirrored to it as one line; the page is at u2.
C27_Witness ==
    /\ CrashFree /\ nspawn = 1 /\ procs[1].arg = "u1"
    /\ written = <<[proc |-> 1, line |-> <<"navigate", " ", "u2", NL>>]>>
    /\ pageUrl = "u2"
    /\ returned = Ret("navigate", "ok", {}, "written")

\* The page-control operations a lane carries.
OpsOf(c) == IF c = "navigate" THEN {"navigate"} ELSE {"scroll"} \cup PAGE_OPS

\* This step invokes a page-control operation on lane c: it proceeds to its
\* first await, or returns at once.
InvokeStep(c) ==
    /\ calls[c].pc = "idle"
    /\ \/ calls'[c].pc # "idle"
       \/ returned' # returned /\ returned'.op \in OpsOf(c)

\* A step that fails with 'Session not initialized' and does nothing else.
FailsWithoutEffect ==
    /\ returned'.outcome = "NotInitialized"
    /\ calls' = calls /\ nspawn' = nspawn /\ written' = written
    /\ procs' = procs /\ process' = process

\* C26: a page-control operation invoked before initialize() or right after
\* a close() has returned fails at once with 'Session not initialized':
\* no page action is issued, no renderer is started, no command is written.
C26_UninitializedOpsFail ==
    [][\A c \in {"navigate", "scroll"} :
          (InvokeStep(c) /\ (~initialized \/ returned.op = "close"))
              => FailsWithoutEffect]_vars

\* The same for operations invoked before initialize() or after a close()
\* that returned normally.
OpsFailBeforeInitAndAfterNormalClose ==
    [][\A c \in {"navigate", "scroll"} :
          (InvokeStep(c)
           /\ (~initialized \/ (returned.op = "close" /\ returned.outcome = "ok")))
              => FailsWithoutEffect]_vars

\* initialize() has got past its read of the state file, or failed there.
ReadSettled ==
    \/ store.pc \in {"context", "page", "done"}
    \/ store.pc = "failed" /\ store.error \in {"read", "context", "page"}

\* C31: when session-state.json is missing, unreadable or unparsable,
\* initialize() does not fail on reading it: it goes on to create the
\* context with no stored state, and completes if the browser steps do.
C31_MissingStateIsEmptyState ==
    (stateFile \notin STATES /\ ReadSettled)
        => /\ store.error # "read"
           /\ store.storageState = "undefined"
           /\ store.pc = "done" => (browser /\ context /\ page)

\* C31 witness: initialize() has completed on an unparsable state file; the
\* context was created with no stored state.
C31_Witness ==
    /\ stateFile = "unparsable" /\ store.pc = "done"
    /\ store.storageState = "undefined" /\ context /\ page

\* Every child that a stop() signalled has exited.
SignalledHaveExited == \A p \in Procs : procs[p].killed => procs[p].st = "exited"

\* This step is a close() returning normally.
CloseReturnsOk ==
    /\ returned'.op = "close" /\ returned'.outcome = "ok"
    /\ \/ returned' # returned
       \/ calls["hook"].pc # "idle" /\ calls'["hook"].pc = "idle"

\* C32: close() persists the state first, then stops the renderer and waits
\* for its exit, then closes the browser; when it returns normally all three
\* steps have run in that order, the session holds no browser, context, page
\* or renderer handle, and getCurrentUrl() is null.
C32_CloseOrderAndRelease ==
    [][/\ (calls["hook"].pc # "stopwait" /\ calls'["hook"].pc = "stopwait")
             => /\ calls["hook"].pc \in {"idle", "save"}
                /\ calls'["hook"].steps = {"save", "stop"}
       /\ (calls["hook"].pc # "browserclose" /\ calls'["hook"].pc = "browserclose")
             => /\ calls'["hook"].steps = {"save", "stop", "browser"}
                /\ SignalledHaveExited'
       /\ CloseReturnsOk
             => /\ returned'.steps = {"save", "stop", "browser"}
                /\ SignalledHaveExited'
                /\ ~browser' /\ ~context' /\ ~page' /\ ~awritManager'
                /\ getCurrentUrl' = "null"]_vars

\* C32 witness: a close() of a session whose page had been driven to a url
\* and whose renderer was running returned normally; the renderer was
\* signalled and has exited, and no handle is left.
C32_Witness ==
    /\ returned = Ret("close", "ok", {"save", "stop", "browser"}, "none")
    /\ \E p \in Procs : procs[p].killed /\ procs[p].st = "exited"
    /\ pageUrl # "none" /\ getCurrentUrl = "null"
    /\ ~browser /\ ~context /\ ~page /\ ~awritManager

\* The length of the data parts of the control sequences cs, concatenated.
RECURSIVE DataLen(_)
DataLen(cs) == IF cs = <<>> THEN 0 ELSE cs[1].len + DataLen(Tail(cs))

\* C33: under kitty, for every buffer, the data parts of the control
\* sequences in the order sent make up the whole base64 payload, each part
\* but the last a full chunk; the first control sequence carries the transfer
\* metadata and every later one only the "more data" flag.
C33_KittyPreservesPayload ==
    rendered.protocol = "kitty" =>
        LET cs == ControlSeqs IN
        /\ DataLen(cs) = PayloadLen
        /\ \A i \in 1..Len(cs) :
              /\ cs[i].len > 0
              /\ i < Len(cs) => cs[i].len = 4096
              /\ cs[i].meta <=> (i = 1)
              /\ i > 1 => (cs[i].width = 0 /\ cs[i].height = 0)

\* C33 witness: a buffer of 3073 bytes went out under kitty as a full chunk
\* with the metadata and a chunk of four characters with the flag only.
C33_Witness ==
    /\ rendered.protocol = "kitty" /\ rendered.bytes = 3073
    /\ Len(ControlSeqs) = 2
    /\ ControlSeqs[1].meta /\ ControlSeqs[1].len = 4096
    /\ ~ControlSeqs[2].meta /\ ControlSeqs[2].len = 4

\* C34: in the kitty and iterm2 encoders the width and height sent are the
\* caller's hint whenever one is given, and 80 and 40 when none is.
C34_SizeHintOrDefault ==
    (rendered.protocol \in {"kitty", "iterm2"} /\ ControlSeqs # <<>>) =>
        /\ ControlSeqs[1].width =
              (IF rendered.options.width = Unset THEN 80 ELSE rendered.options.width[1])
        /\ ControlSeqs[1].height =
              (IF rendered.options.height = Unset THEN 40 ELSE rendered.options.height[1])

\* C39: the query probe resolves once: after it has resolved, by the marker
\* or by the timeout, its timer is cancelled and no input listener is left,
\* and no later step changes its answer, the detected capability, the
\* protocol kept by the display, or the input the probe has consumed.
C39_ProbeResolvesOnce ==
    [][/\ detect'.pc = "done" => (~kittyProbe'.timer /\ ~stdinMode'.listening)
       /\ detect.pc = "done"
             => /\ detect' = detect /\ caps' = caps
                /\ plugin'.protocol = plugin.protocol
                /\ kittyProbe'.response = kittyProbe.response]_vars

\* C39 witness: part of an answer arrived, the timer fired first and resolved
\* the probe, start-up went on, and the terminal may still send input.
C39_Witness ==
    /\ detect.pc = "done" /\ detect.by = "timeout"
    /\ kittyProbe.response # <<>> /\ kittyProbe.nchunks < MaxChunks
    /\ ~kittyProbe.timer /\ ~stdinMode.listening
    /\ plugin.pc \notin {"new", "display"}

\* C37: whenever the supervisor is ready it tracks a subprocess whose exit
\* has not been observed.
C37_ReadyImpliesTrackedProcess ==
    ready => (process # 0 /\ procs[process].st # "exited")

\* The children launched that have neither exited nor been signalled.
LiveChildren == {p \in Procs : procs[p].st = "running" /\ ~procs[p].killed}

\* C38: at most one renderer subprocess is alive and unsignalled at any time,
\* and the supervisor's handle refers to it, however navigate calls overlap.
C38_AtMostOneLiveRenderer ==
    /\ Cardinality(LiveChildren) <= 1
    /\ \A p \in LiveChildren : process = p

\* The step in which a scroll operation on lane c starts its page action.
ScrollIssue(c) == calls[c].pc = "idle" /\ calls'[c].pc = "pageaction"

\* C36: scroll, scrollTo and scrollToElement perform the page action first
\* and mirror it to the renderer only after it succeeded; with the supervisor
\* in any state but Ready the mirror writes nothing and the operation ends as
\* the page action ended, never with an error of the renderer.
C36_ScrollThenBestEffortMirror ==
    [][\A c \in Lanes :
         /\ ScrollIssue(c) => written' = written
         /\ (ScrollReturn(c) /\ calls[c].op = "scroll")
              => /\ returned'.outcome \in {"ok", "PageError"}
                 /\ returned'.outcome = "PageError"
                       => (written' = written /\ returned'.mirror = "none")
                 /\ written' # written
                       => /\ returned'.outcome = "ok"
                          /\ written'[Len(written')].line
                                = CommandLine(calls[c].cmd.command,
                                              calls[c].cmd.args) \o <<NL>>
                 /\ SupState # "Ready"
                       => /\ written' = written
                          /\ returned'.outcome = "ok" /\ awritManager
                                => returned'.mirror = "reported"]_vars

\* C36 witness: after the renderer's child exited and no process is tracked,
\* a scroll operation succeeded; its mirror was dropped and logged.
C36_Witness ==
    /\ process = 0 /\ \E p \in Procs : procs[p].st = "exited"
    /\ awritManager /\ page
    /\ returned = Ret("scroll", "ok", {}, "reported")

\* The number of lines of a file's text: its line breaks.
LineCount(text) == Len(SelectSeq(text, LAMBDA piece : piece = NL))

\* C35: after a log tool call the file holds exactly one line per retrieved
\* event, for every number of events and every event text.
C35_OneLinePerEvent ==
    retrieval.pc = "returned"
        => LineCount(logFile[retrieval.kind]) = Len(retrieval.lines)

\* C40: the count a log tool reports equals the number of events its call
\* wrote to the file, whatever the page delivered during the write.
C40_ReportedCountIsWrittenCount ==
    retrieval.pc = "returned" => retrieval.total = Len(retrieval.lines)

====
